---- MODULE Spec2Model ----
(***************************************************************************)
(* Progressive caption pipeline of AutoCaptions.                           *)
(*                                                                         *)
(* Two implementations of CaptionGenerator live in the repository:         *)
(*   "sliding" : src/progressive_captions.py             (sliding window,  *)
(*               two display levels)                                       *)
(*   "cycle"   : src/AutoCaptions/progressive_captions.py (1-3 word        *)
(*               groups, one display level)                                *)
(*                                                                         *)
(* Times are Python floats (seconds) in the code.  Here a time is an       *)
(* integer number of ticks, Scale ticks per millisecond, with Scale chosen *)
(* so that every division the code performs on the modelled inputs         *)
(* (by the word count, by max_words, by 2) is exact: the model is the      *)
(* code's arithmetic over the rationals, without float rounding.           *)
(***************************************************************************)
EXTENDS Integers, Sequences, FiniteSets, TLC

VARIABLES
    impl,        \* which CaptionGenerator class is in use: "sliding" | "cycle"
    cfg,         \* the generator's fields set by __init__
    segments,    \* the List[SubtitleSegment] handed to generate_states
    clip_start,  \* generate_states argument
    clip_end,    \* generate_states argument
    pc,          \* position of the caller in the pipeline
    states,      \* the List[CaptionState] returned by the last call
    wt_args,     \* arguments of a direct compute_word_times call
    word_times,  \* result of a direct compute_word_times call
    rendered,    \* what a renderer adapter emitted, entry by entry
    ctor_args,   \* arguments of CaptionGenerator.__init__
    loop_seg,    \* fixed-cycle generate_states: segments the for loop has taken
    loop_i,      \* fixed-cycle generate_states: the local i of the while loop
    loop_count,  \* fixed-cycle generate_states: iterations of the while loop so far
    wrap_args,   \* arguments of a direct wrap_text call
    wrapped,     \* results of the wrap_text calls made so far
    ref_states,  \* a state list as marked by the one-level greedy assigner
    text_clips,  \* MoviePy runner: the timings of the clips it creates
    overlapping_found  \* MoviePy runner: the flag of its overlap validation

\* The variables of the downstream and stand-alone calls.
\* The variables of the assigner comparison and of the MoviePy runners.
runVars == <<ref_states, text_clips, overlapping_found>>

auxVars == <<rendered, ctor_args, loop_seg, loop_i, loop_count, wrap_args, wrapped, runVars>>

vars == <<impl, cfg, segments, clip_start, clip_end, pc, states, wt_args, word_times, auxVars>>

-----------------------------------------------------------------------------
(* Bounds of the model *)

MaxSegs == 2
MaxWordCount == 2

(* Program constants *)

DefaultLeadInMs == 180
DefaultMinVisibilityMs == 120
DefaultOverlapMs == 50
DefaultMaxWords == 5
CycleDefaultMinVisibilityMs == 200
CycleDefaultMinWords == 1
CycleDefaultMaxWords == 3
PrimaryY == 260
SecondaryY == 320
ExampleEndMs == 2535

\* The example sentence of test_example.py, tokenized.
ExampleWords == <<"This", "room", "is", "like", "a", "red", "carpet", "Hollywood", "hallway.">>

-----------------------------------------------------------------------------
(* Arithmetic helpers *)

\* Python's builtin max / min on two numbers.
Max(a, b) == IF a >= b THEN a ELSE b

Min(a, b) == IF a <= b THEN a ELSE b

RECURSIVE GCD(_, _)
GCD(a, b) == IF b = 0 THEN a ELSE GCD(b, a % b)

RECURSIVE LCMUpTo(_)
LCMUpTo(n) == IF n <= 1 THEN 1 ELSE LET l == LCMUpTo(n - 1) IN (l * n) \div GCD(l, n)

\* Ticks per millisecond: divisible by every word count and max_words in use.
Scale == LCMUpTo(Max(MaxWordCount, Len(ExampleWords)))

\* Milliseconds to ticks.
Ms(t) == t * Scale

\* float('inf'), the default clip_end: larger than every reachable time.
Inf == 1000000000

-----------------------------------------------------------------------------
(* Input spaces *)

\* (start, end) of the modelled segments, in ms.
Spans == { <<0, 100>>, <<0, 600>>, <<100, 1200>>, <<600, 800>> }

\* A segment text as re.split(r'\s+', text) sees it: a sequence of pieces,
\* where a piece may be the empty string (blank or empty text).
TextOf(n) == IF n = 0 THEN << "" >> ELSE SubSeq(ExampleWords, 1, n)

SegmentChoices ==
    { [start |-> Ms(sp[1]), end |-> Ms(sp[2]), text |-> TextOf(n)] :
          sp \in Spans, n \in 1..MaxWordCount }
    \cup { [start |-> Ms(0), end |-> Ms(600), text |-> TextOf(0)] }
    \cup { [start |-> Ms(0), end |-> Ms(ExampleEndMs), text |-> ExampleWords] }

\* Segment lists of length 0..MaxSegs; index is the position the parser gave
\* (ascending), or the reverse of it (a caller that reordered the list).
SegmentLists ==
    UNION { { [i \in 1..n |-> [start |-> f[i].start, end |-> f[i].end, text |-> f[i].text,
                                index |-> IF rev THEN n - i ELSE i - 1]] :
                  f \in [1..n -> SegmentChoices], rev \in IF n >= 2 THEN BOOLEAN ELSE {FALSE} } :
            n \in 0..MaxSegs }

SlidingConfigs ==
    { [lead_in_sec |-> Ms(DefaultLeadInMs), min_visibility_sec |-> Ms(DefaultMinVisibilityMs),
       overlap_sec |-> Ms(DefaultOverlapMs), max_words |-> DefaultMaxWords, min_words |-> 0],
      [lead_in_sec |-> Ms(DefaultLeadInMs), min_visibility_sec |-> Ms(DefaultMinVisibilityMs),
       overlap_sec |-> Ms(DefaultOverlapMs), max_words |-> 2, min_words |-> 0],
      [lead_in_sec |-> Ms(0), min_visibility_sec |-> Ms(CycleDefaultMinVisibilityMs),
       overlap_sec |-> Ms(0), max_words |-> 2, min_words |-> 0] }

CycleConfigs ==
    { [lead_in_sec |-> 0, min_visibility_sec |-> Ms(mv), overlap_sec |-> 0,
       max_words |-> w[2], min_words |-> w[1]] :
          mv \in {CycleDefaultMinVisibilityMs},
          w \in { <<CycleDefaultMinWords, CycleDefaultMaxWords>>, <<1, 1>>, <<2, 3>> } }
    \cup { [lead_in_sec |-> 0, min_visibility_sec |-> Ms(DefaultMinVisibilityMs), overlap_sec |-> 0,
             max_words |-> CycleDefaultMaxWords, min_words |-> CycleDefaultMinWords] }

Clips == { <<0, Inf>>, <<Ms(100), Ms(700)>> }

-----------------------------------------------------------------------------
(* CaptionGenerator, shared helpers *)

\* tokenize: split on whitespace and drop the empty pieces.
tokenize(text) == SelectSeq(text, LAMBDA p : p # "")

\* Mutant of ClampToSegment: the bound is not clamped.
ClampToSegment_none(seg_start, seg_end, t) == t

\* "Clamp to segment boundaries": max(seg_start, min(seg_end, t)).
ClampToSegment(seg_start, seg_end, t) == Max(seg_start, Min(seg_end, t))

\* The loop of compute_word_times: word_count slots of length slot from
\* seg_start, each bound clamped into [seg_start, seg_end].
UniformSlots(seg_start, seg_end, word_count, slot) ==
    [i \in 1..word_count |->
        << ClampToSegment(seg_start, seg_end, seg_start + (i - 1) * slot),
           ClampToSegment(seg_start, seg_end, seg_start + i * slot) >>]

\* CaptionState(text, on, off, seg_idx, y, skip=False).
CaptionState(text, on, off, seg_idx, y) ==
    [text |-> text, on |-> on, off |-> off, seg_idx |-> seg_idx, y |-> y, skip |-> FALSE]

\* Mutant of KeyLess: the key is s.on alone.
KeyLess_on_only(a, b) == a.on < b.on

\* key=lambda s: (s.on, s.seg_idx), compared as Python compares tuples.
KeyLess(a, b) == a.on < b.on \/ (a.on = b.on /\ a.seg_idx < b.seg_idx)

\* Insert s into an already sorted list after every element whose key is
\* not greater than its own (what a stable sort does with a later element).
RECURSIVE InsertSorted(_, _)
InsertSorted(sorted_list, s) ==
    IF sorted_list = <<>> THEN <<s>>
    ELSE IF KeyLess(s, Head(sorted_list)) THEN <<s>> \o sorted_list
    ELSE <<Head(sorted_list)>> \o InsertSorted(Tail(sorted_list), s)

\* sorted(states, key=lambda s: (s.on, s.seg_idx)): stable.
RECURSIVE sorted(_)
sorted(list) ==
    IF list = <<>> THEN <<>>
    ELSE InsertSorted(sorted(SubSeq(list, 1, Len(list) - 1)), list[Len(list)])

-----------------------------------------------------------------------------
(* Sliding-window implementation: src/progressive_captions.py *)

\* compute_word_times: the visibility floor is min_visibility_sec per word.
Sliding_compute_word_times(c, seg_start, seg_end, word_count) ==
    LET total_dur == seg_end - seg_start
        min_total_dur == word_count * c.min_visibility_sec
        actual_dur == Max(total_dur, min_total_dur)
        slot == actual_dur \div word_count
    IN  UniformSlots(seg_start, seg_end, word_count, slot)

\* Mutant of Sliding_enforce_min_duration: the floor is not applied.
Sliding_enforce_min_duration_none(c, on, off) == off

\* "Enforce minimum duration": off = max(off, on + min_visibility_sec).
Sliding_enforce_min_duration(c, on, off) == Max(off, on + c.min_visibility_sec)

\* Mutant of Sliding_state: on is not clamped at 0.
Sliding_state_unclamped(c, seg, words, wt, adj_end, cs, ce, i) ==
    LET window_start == Max(0, i - (c.max_words - 1))
        window_text == SubSeq(words, window_start + 1, i + 1)
        on == wt[i + 1][1] - c.lead_in_sec
        off0 == IF i < Len(words) - 1 THEN wt[i + 2][1] - c.overlap_sec ELSE adj_end
        off1 == Min(ce - cs, off0)
        off == Sliding_enforce_min_duration(c, on, off1)
    IN  CaptionState(window_text, on, off, seg.index, PrimaryY)

\* Mutant of Sliding_state: the window holds one word more than max_words.
Sliding_state_wide(c, seg, words, wt, adj_end, cs, ce, i) ==
    LET window_start == Max(0, i - c.max_words)
        window_text == SubSeq(words, window_start + 1, i + 1)
        on == Max(0, wt[i + 1][1] - c.lead_in_sec)
        off0 == IF i < Len(words) - 1 THEN wt[i + 2][1] - c.overlap_sec ELSE adj_end
        off1 == Min(ce - cs, off0)
        off == Sliding_enforce_min_duration(c, on, off1)
    IN  CaptionState(window_text, on, off, seg.index, PrimaryY)

\* Body of the inner loop for word i (0-based, as in the code).
Sliding_state(c, seg, words, wt, adj_end, cs, ce, i) ==
    LET window_start == Max(0, i - (c.max_words - 1))
        window_text == SubSeq(words, window_start + 1, i + 1)
        on == Max(0, wt[i + 1][1] - c.lead_in_sec)
        off0 == IF i < Len(words) - 1 THEN wt[i + 2][1] - c.overlap_sec ELSE adj_end
        off1 == Min(ce - cs, off0)
        off == Sliding_enforce_min_duration(c, on, off1)
    IN  CaptionState(window_text, on, off, seg.index, PrimaryY)

\* Mutant of Sliding_segment_states: a segment whose adjusted range is empty
\* (adj_end = adj_start) is not dropped.
Sliding_segment_states_empty_range(c, seg, cs, ce) ==
    LET adj_start == Max(0, seg.start - cs)
        adj_end == Min(ce - cs, seg.end - cs)
        words == tokenize(seg.text)
    IN  IF adj_end < adj_start THEN <<>>
        ELSE IF words = <<>> THEN <<>>
        ELSE LET wt == Sliding_compute_word_times(c, adj_start, adj_end, Len(words))
             IN  [k \in 1..Len(words) |-> Sliding_state(c, seg, words, wt, adj_end, cs, ce, k - 1)]

\* Body of the outer loop: the states one segment contributes, in order.
Sliding_segment_states(c, seg, cs, ce) ==
    LET adj_start == Max(0, seg.start - cs)
        adj_end == Min(ce - cs, seg.end - cs)
        words == tokenize(seg.text)
    IN  IF adj_end <= adj_start THEN <<>>
        ELSE IF words = <<>> THEN <<>>
        ELSE LET wt == Sliding_compute_word_times(c, adj_start, adj_end, Len(words))
             IN  [k \in 1..Len(words) |-> Sliding_state(c, seg, words, wt, adj_end, cs, ce, k - 1)]

RECURSIVE Sliding_unsorted_states(_, _, _, _)
Sliding_unsorted_states(c, segs, cs, ce) ==
    IF segs = <<>> THEN <<>>
    ELSE Sliding_segment_states(c, Head(segs), cs, ce) \o Sliding_unsorted_states(c, Tail(segs), cs, ce)

\* generate_states(segments, clip_start, clip_end), with its final sort.
Sliding_generate_states(c, segs, cs, ce) == sorted(Sliding_unsorted_states(c, segs, cs, ce))

\* Mutant of Sliding_level_accepts: compares with the last state's on.
Sliding_level_accepts_on(level, state) ==
    level = <<>> \/ level[Len(level)].on <= state.on

\* "if not levels[lvl] or levels[lvl][-1].off <= state.on"
Sliding_level_accepts(level, state) ==
    level = <<>> \/ level[Len(level)].off <= state.on

\* Mutant of Sliding_assign_one: the levels are tried in descending order.
Sliding_assign_one_descending(acc, state) ==
    IF Sliding_level_accepts(acc.levels[2], state)
    THEN LET st == [state EXCEPT !.y = SecondaryY]
         IN  [out |-> Append(acc.out, st), levels |-> <<acc.levels[1], Append(acc.levels[2], st)>>]
    ELSE IF Sliding_level_accepts(acc.levels[1], state)
    THEN LET st == [state EXCEPT !.y = PrimaryY]
         IN  [out |-> Append(acc.out, st), levels |-> <<Append(acc.levels[1], st), acc.levels[2]>>]
    ELSE [out |-> Append(acc.out, [state EXCEPT !.skip = TRUE]), levels |-> acc.levels]

\* Mutant of Sliding_assign_one: a state no level accepts is put on level 1
\* all the same.
Sliding_assign_one_forced(acc, state) ==
    IF Sliding_level_accepts(acc.levels[1], state)
    THEN LET st == [state EXCEPT !.y = PrimaryY]
         IN  [out |-> Append(acc.out, st), levels |-> <<Append(acc.levels[1], st), acc.levels[2]>>]
    ELSE LET st == [state EXCEPT !.y = SecondaryY]
         IN  [out |-> Append(acc.out, st), levels |-> <<acc.levels[1], Append(acc.levels[2], st)>>]

\* One iteration of the loop of assign_caption_levels; acc holds the list
\* built so far (out) and the two level lists.
Sliding_assign_one(acc, state) ==
    IF Sliding_level_accepts(acc.levels[1], state)
    THEN LET st == [state EXCEPT !.y = PrimaryY]
         IN  [out |-> Append(acc.out, st), levels |-> <<Append(acc.levels[1], st), acc.levels[2]>>]
    ELSE IF Sliding_level_accepts(acc.levels[2], state)
    THEN LET st == [state EXCEPT !.y = SecondaryY]
         IN  [out |-> Append(acc.out, st), levels |-> <<acc.levels[1], Append(acc.levels[2], st)>>]
    ELSE [out |-> Append(acc.out, [state EXCEPT !.skip = TRUE]), levels |-> acc.levels]

RECURSIVE Sliding_assign_loop(_, _)
Sliding_assign_loop(acc, rest) ==
    IF rest = <<>> THEN acc
    ELSE Sliding_assign_loop(Sliding_assign_one(acc, Head(rest)), Tail(rest))

\* assign_caption_levels(states): two levels, first fit.
Sliding_assign_caption_levels(list) ==
    Sliding_assign_loop([out |-> <<>>, levels |-> << <<>>, <<>> >>], list).out

-----------------------------------------------------------------------------
(* Fixed-cycle implementation: src/AutoCaptions/progressive_captions.py *)

\* compute_word_times: the floor is min_visibility_sec / max_words per word.
Cycle_compute_word_times(c, seg_start, seg_end, word_count) ==
    LET total_dur == seg_end - seg_start
        min_total_dur == word_count * (c.min_visibility_sec \div c.max_words)
        actual_dur == Max(total_dur, min_total_dur)
        slot == actual_dur \div word_count
    IN  UniformSlots(seg_start, seg_end, word_count, slot)

\* Mutant of determine_word_count: the speed comparisons are not strict.
determine_word_count_nonstrict(c, word_index, total_words, avg_time_per_word) ==
    LET remaining_words == total_words - word_index
        cycle_pos == word_index % 3
        word_count == Min(Min(c.min_words + cycle_pos, c.max_words), remaining_words)
    IN  IF 2 * avg_time_per_word <= c.min_visibility_sec THEN Min(1, remaining_words)
        ELSE IF avg_time_per_word <= c.min_visibility_sec THEN Min(2, remaining_words)
        ELSE IF word_count < c.min_words /\ remaining_words >= c.min_words THEN c.min_words
        ELSE word_count

\* determine_word_count(word_index, total_words, avg_time_per_word).
\* The comparisons with min_visibility_sec / 2 are made on doubled values.
determine_word_count(c, word_index, total_words, avg_time_per_word) ==
    LET remaining_words == total_words - word_index
        cycle_pos == word_index % 3
        word_count == Min(Min(c.min_words + cycle_pos, c.max_words), remaining_words)
    IN  IF 2 * avg_time_per_word < c.min_visibility_sec THEN Min(1, remaining_words)
        ELSE IF avg_time_per_word < c.min_visibility_sec THEN Min(2, remaining_words)
        ELSE IF word_count < c.min_words /\ remaining_words >= c.min_words THEN c.min_words
        ELSE word_count

\* Mutant of Cycle_valid_timing: the comparison is not strict.
Cycle_valid_timing_nonstrict(on, off) == off >= on

\* "Ensure valid timing": a group is emitted only "if off > on".
Cycle_valid_timing(on, off) == off > on

\* "Ensure minimum duration" followed by "Clamp to segment boundaries":
\* the (on, off) a group ends up with.
Cycle_group_timing(c, adj_start, adj_end, on0, off0) ==
    LET off1 == IF off0 - on0 < c.min_visibility_sec THEN on0 + c.min_visibility_sec ELSE off0
    IN  << ClampToSegment(adj_start, adj_end, on0), ClampToSegment(adj_start, adj_end, off1) >>

\* The while loop over the words of one segment, from word index i (0-based).
RECURSIVE Cycle_groups(_, _, _, _, _, _, _)
Cycle_groups(c, seg, words, wt, adj_start, adj_end, i) ==
    IF ~(i < Len(words)) THEN <<>>
    ELSE
    LET total_duration == adj_end - adj_start
        avg_time_per_word == total_duration \div Len(words)
        word_count == Min(determine_word_count(c, i, Len(words), avg_time_per_word), Len(words) - i)
        caption_text == SubSeq(words, i + 1, i + word_count)
        on0 == IF i < Len(wt) THEN wt[i + 1][1]
               ELSE adj_start + (i * total_duration) \div Len(words)
        last_word_idx == Min(i + word_count - 1, Len(wt) - 1)
        off0 == IF last_word_idx < Len(wt) THEN wt[last_word_idx + 1][2] ELSE adj_end
        t == Cycle_group_timing(c, adj_start, adj_end, on0, off0)
        emitted == IF Cycle_valid_timing(t[1], t[2]) THEN << CaptionState(caption_text, t[1], t[2], seg.index, PrimaryY) >>
                   ELSE <<>>
    IN  emitted \o Cycle_groups(c, seg, words, wt, adj_start, adj_end, i + word_count)

\* Body of the outer loop: the states one segment contributes, in order.
Cycle_segment_states(c, seg, cs, ce) ==
    LET adj_start == Max(0, seg.start - cs)
        adj_end == Min(ce - cs, seg.end - cs)
        words == tokenize(seg.text)
    IN  IF adj_end <= adj_start THEN <<>>
        ELSE IF words = <<>> THEN <<>>
        ELSE Cycle_groups(c, seg, words, Cycle_compute_word_times(c, adj_start, adj_end, Len(words)),
                          adj_start, adj_end, 0)

RECURSIVE Cycle_unsorted_states(_, _, _, _)
Cycle_unsorted_states(c, segs, cs, ce) ==
    IF segs = <<>> THEN <<>>
    ELSE Cycle_segment_states(c, Head(segs), cs, ce) \o Cycle_unsorted_states(c, Tail(segs), cs, ce)

\* generate_states(segments, clip_start, clip_end), with its final sort.
Cycle_generate_states(c, segs, cs, ce) == sorted(Cycle_unsorted_states(c, segs, cs, ce))

\* Mutant of Cycle_overlaps: captions that only touch count as overlapping.
Cycle_overlaps_touching(state, level_state) ==
    ~(state.off < level_state.on \/ state.on > level_state.off)

\* "if not (state.off <= level_state.on or state.on >= level_state.off)"
Cycle_overlaps(state, level_state) ==
    ~(state.off <= level_state.on \/ state.on >= level_state.off)

\* Mutant of Cycle_assign_one: a rejected state is moved to the secondary
\* offset.
Cycle_assign_one_moves_rejected(acc, state) ==
    LET has_overlap == \E k \in 1..Len(acc.levels) : Cycle_overlaps(state, acc.levels[k])
    IN  IF ~has_overlap
        THEN LET st == [state EXCEPT !.y = PrimaryY]
             IN  [out |-> Append(acc.out, st), levels |-> Append(acc.levels, st)]
        ELSE [out |-> Append(acc.out, [state EXCEPT !.skip = TRUE, !.y = SecondaryY]),
              levels |-> acc.levels]

\* One iteration of the loop of assign_caption_levels; acc holds the list
\* built so far (out) and the accepted captions (levels).
Cycle_assign_one(acc, state) ==
    LET has_overlap == \E k \in 1..Len(acc.levels) : Cycle_overlaps(state, acc.levels[k])
    IN  IF ~has_overlap
        THEN LET st == [state EXCEPT !.y = PrimaryY]
             IN  [out |-> Append(acc.out, st), levels |-> Append(acc.levels, st)]
        ELSE [out |-> Append(acc.out, [state EXCEPT !.skip = TRUE]), levels |-> acc.levels]

RECURSIVE Cycle_assign_loop(_, _)
Cycle_assign_loop(acc, rest) ==
    IF rest = <<>> THEN acc
    ELSE Cycle_assign_loop(Cycle_assign_one(acc, Head(rest)), Tail(rest))

\* assign_caption_levels(states): one level, overlapping captions skipped.
Cycle_assign_caption_levels(list) ==
    Cycle_assign_loop([out |-> <<>>, levels |-> <<>>], list).out

-----------------------------------------------------------------------------
(* The pipeline: generate_states, then assign_caption_levels *)

NoArgs == [seg_start |-> 0, seg_end |-> 0, word_count |-> 0]

\* No list compared and no runner started.
RunIdle ==
    /\ ref_states = <<>>
    /\ text_clips = <<>>
    /\ overlapping_found = FALSE

\* Nothing rendered, constructed, looped over or wrapped yet.
AuxIdle ==
    /\ rendered = <<>>
    /\ ctor_args = <<>>
    /\ loop_seg = 0
    /\ loop_i = 0
    /\ loop_count = 0
    /\ wrap_args = <<>>
    /\ wrapped = <<>>
    /\ RunIdle

Init ==
    /\ \/ impl = "sliding" /\ cfg \in SlidingConfigs
       \/ impl = "cycle" /\ cfg \in CycleConfigs
    /\ segments \in SegmentLists
    /\ \E cl \in Clips : clip_start = cl[1] /\ clip_end = cl[2]
    /\ pc = "start"
    /\ states = <<>>
    /\ wt_args = NoArgs
    /\ word_times = <<>>
    /\ AuxIdle

SlidingGenerate ==
    /\ pc = "start" /\ impl = "sliding"
    /\ states' = Sliding_generate_states(cfg, segments, clip_start, clip_end)
    /\ pc' = "generated"
    /\ UNCHANGED <<impl, cfg, segments, clip_start, clip_end, wt_args, word_times, auxVars>>

SlidingAssign ==
    /\ pc = "generated" /\ impl = "sliding"
    /\ states' = Sliding_assign_caption_levels(states)
    /\ pc' = "assigned"
    /\ UNCHANGED <<impl, cfg, segments, clip_start, clip_end, wt_args, word_times, auxVars>>

CycleGenerate ==
    /\ pc = "start" /\ impl = "cycle"
    /\ states' = Cycle_generate_states(cfg, segments, clip_start, clip_end)
    /\ pc' = "generated"
    /\ UNCHANGED <<impl, cfg, segments, clip_start, clip_end, wt_args, word_times, auxVars>>

CycleAssign ==
    /\ pc = "generated" /\ impl = "cycle"
    /\ states' = Cycle_assign_caption_levels(states)
    /\ pc' = "assigned"
    /\ UNCHANGED <<impl, cfg, segments, clip_start, clip_end, wt_args, word_times, auxVars>>

Next == SlidingGenerate \/ SlidingAssign \/ CycleGenerate \/ CycleAssign

Spec == Init /\ [][Next]_vars

-----------------------------------------------------------------------------
(* wrap_text and the renderer adapters (identical in both files) *)

DefaultMaxChars == 28
DefaultVideoHeight == 1920

\* len(' '.join(ws)) for a list of words.
RECURSIVE JoinedLen(_)
JoinedLen(ws) ==
    IF ws = <<>> THEN 0
    ELSE IF Len(ws) = 1 THEN Len(ws[1])
    ELSE Len(ws[1]) + 1 + JoinedLen(Tail(ws))

\* Mutant of wrap_flush: the line is added even when it has no content.
wrap_flush_always(lines, current) == Append(lines, current)

\* "if current:  # Only add line if we have content".
wrap_flush(lines, current) == IF current # <<>> THEN Append(lines, current) ELSE lines

\* Mutant of wrap_one: the line is measured without the word to be added.
wrap_one_late(acc, word, max_chars) ==
    IF JoinedLen(acc.current) > max_chars
    THEN [lines |-> wrap_flush(acc.lines, acc.current), current |-> <<word>>]
    ELSE [lines |-> acc.lines, current |-> Append(acc.current, word)]

\* One iteration of the loop of wrap_text over the words.
wrap_one(acc, word, max_chars) ==
    IF JoinedLen(Append(acc.current, word)) > max_chars
    THEN [lines |-> wrap_flush(acc.lines, acc.current), current |-> <<word>>]
    ELSE [lines |-> acc.lines, current |-> Append(acc.current, word)]

RECURSIVE wrap_loop(_, _, _)
wrap_loop(acc, ws, max_chars) ==
    IF ws = <<>> THEN acc
    ELSE wrap_loop(wrap_one(acc, Head(ws), max_chars), Tail(ws), max_chars)

\* wrap_text from the split words to the list lines (each line a list of
\* words), before the lines are joined.
wrap_lines(ws, max_chars) ==
    LET acc == wrap_loop([lines |-> <<>>, current |-> <<>>], ws, max_chars)
    IN  wrap_flush(acc.lines, acc.current)

\* Mutant of Rendered: skipped states are rendered too.
Rendered_all(state) == TRUE

\* "if state.skip: continue" of both adapters.
Rendered(state) == ~state.skip

\* f"{t:.3f}": t rounded to the nearest millisecond (ties to even), as ticks.
Format3f(t) ==
    LET q == t \div Scale
        r == t % Scale
    IN  IF 2 * r > Scale \/ (2 * r = Scale /\ q % 2 = 1) THEN Ms(q + 1) ELSE Ms(q)

\* The dict generate_text_clips appends for one state (the constant styling
\* entries left out).  text holds the wrapped lines.
TextClip(state) ==
    [text |-> wrap_lines(state.text, DefaultMaxChars),
     start_time |-> state.on,
     end_time |-> state.off,
     position_y |-> DefaultVideoHeight - state.y]

\* MoviePyGenerator.generate_text_clips(states).
generate_text_clips(list) ==
    LET kept == SelectSeq(list, Rendered)
    IN  [k \in 1..Len(kept) |-> TextClip(kept[k])]

RECURSIVE Flatten(_)
Flatten(lines) == IF lines = <<>> THEN <<>> ELSE Head(lines) \o Flatten(Tail(lines))

\* The drawtext filter generate_filter_script appends for one state: the
\* wrapped text with its newlines replaced by spaces (escape_ffmpeg_text
\* changes no character of the modelled words), the enable window printed
\* with three decimals, and the y offset.
DrawText(state) ==
    [text |-> Flatten(wrap_lines(state.text, DefaultMaxChars)),
     start_time |-> Format3f(state.on),
     end_time |-> Format3f(state.off),
     position_y |-> state.y]

\* FFmpegGenerator.generate_filter_script(states, output_file): the drawtext
\* filters of the script, which follow its two fixed leading filters.
generate_filter_script(list) ==
    LET kept == SelectSeq(list, Rendered)
    IN  [k \in 1..Len(kept) |-> DrawText(kept[k])]

GenerateTextClips ==
    /\ pc = "assigned"
    /\ rendered' = generate_text_clips(states)
    /\ pc' = "clips"
    /\ UNCHANGED <<impl, cfg, segments, clip_start, clip_end, states, wt_args, word_times,
                   ctor_args, loop_seg, loop_i, loop_count, wrap_args, wrapped, runVars>>

GenerateFilterScript ==
    /\ pc = "assigned"
    /\ rendered' = generate_filter_script(states)
    /\ pc' = "script"
    /\ UNCHANGED <<impl, cfg, segments, clip_start, clip_end, states, wt_args, word_times,
                   ctor_args, loop_seg, loop_i, loop_count, wrap_args, wrapped, runVars>>

NextRender ==
    \/ SlidingGenerate \/ SlidingAssign \/ CycleGenerate \/ CycleAssign
    \/ GenerateTextClips \/ GenerateFilterScript

\* The pipeline followed by one of the renderer adapters.
SpecRender == Init /\ [][NextRender]_vars

-----------------------------------------------------------------------------
(* assign_caption_levels called again on the list it has already marked *)

SlidingReassign ==
    /\ pc = "assigned" /\ impl = "sliding"
    /\ states' = Sliding_assign_caption_levels(states)
    /\ pc' = "reassigned"
    /\ UNCHANGED <<impl, cfg, segments, clip_start, clip_end, wt_args, word_times, auxVars>>

CycleReassign ==
    /\ pc = "assigned" /\ impl = "cycle"
    /\ states' = Cycle_assign_caption_levels(states)
    /\ pc' = "reassigned"
    /\ UNCHANGED <<impl, cfg, segments, clip_start, clip_end, wt_args, word_times, auxVars>>

NextReassign ==
    \/ SlidingGenerate \/ SlidingAssign \/ CycleGenerate \/ CycleAssign
    \/ SlidingReassign \/ CycleReassign

SpecReassign == Init /\ [][NextReassign]_vars

-----------------------------------------------------------------------------
(* The sliding-window pipeline under further configurations *)

\* SlidingConfigs, and a configuration whose overlap allowance is negative
\* (a gap between neighbouring captions).
SlidingConfigsWide ==
    SlidingConfigs \cup
    { [lead_in_sec |-> Ms(DefaultLeadInMs), min_visibility_sec |-> Ms(DefaultMinVisibilityMs),
       overlap_sec |-> Ms(0 - 400), max_words |-> DefaultMaxWords, min_words |-> 0] }

InitSlidingWide ==
    /\ impl = "sliding"
    /\ cfg \in SlidingConfigsWide
    /\ segments \in SegmentLists
    /\ \E cl \in Clips : clip_start = cl[1] /\ clip_end = cl[2]
    /\ pc = "start"
    /\ states = <<>>
    /\ wt_args = NoArgs
    /\ word_times = <<>>
    /\ AuxIdle

NextSlidingWide == SlidingGenerate \/ SlidingAssign

SpecSlidingWide == InitSlidingWide /\ [][NextSlidingWide]_vars

-----------------------------------------------------------------------------
(* assign_caption_levels on arbitrary on-sorted lists, next to the greedy
   assigner with one level *)

MaxTime == 3
MaxStates == 4

\* Captions with on < off over the times 0..MaxTime (in milliseconds).
Intervals == { iv \in (0..MaxTime) \X (0..MaxTime) : iv[1] < iv[2] }

\* Lists of up to MaxStates states, sorted by on, each with off > on, as a
\* caller can hand them to assign_caption_levels.
SortedStateLists ==
    UNION { { [i \in 1..n |-> CaptionState(<<"This">>, Ms(f[i][1]), Ms(f[i][2]), 0, PrimaryY)] :
                  f \in { g \in [1..n -> Intervals] : \A i \in 1..(n - 1) : g[i][1] <= g[i + 1][1] } } :
            n \in 0..MaxStates }

\* One iteration of the greedy assigner with a single level: the state is
\* accepted when the level is empty or its last accepted state has
\* off <= state.on, and is marked skip otherwise.
Greedy1_assign_one(acc, state) ==
    IF Sliding_level_accepts(acc.levels[1], state)
    THEN LET st == [state EXCEPT !.y = PrimaryY]
         IN  [out |-> Append(acc.out, st), levels |-> << Append(acc.levels[1], st) >>]
    ELSE [out |-> Append(acc.out, [state EXCEPT !.skip = TRUE]), levels |-> acc.levels]

RECURSIVE Greedy1_assign_loop(_, _)
Greedy1_assign_loop(acc, rest) ==
    IF rest = <<>> THEN acc
    ELSE Greedy1_assign_loop(Greedy1_assign_one(acc, Head(rest)), Tail(rest))

\* The greedy assigner with level_count = 1.
Greedy1_assign_caption_levels(list) ==
    Greedy1_assign_loop([out |-> <<>>, levels |-> << <<>> >>], list).out

InitAssign ==
    /\ impl = "cycle"
    /\ cfg \in CycleConfigs /\ cfg.min_words = CycleDefaultMinWords
    /\ cfg.max_words = CycleDefaultMaxWords
    /\ cfg.min_visibility_sec = Ms(CycleDefaultMinVisibilityMs)
    /\ segments = <<>>
    /\ clip_start = 0
    /\ clip_end = Inf
    /\ pc = "lists"
    /\ states \in SortedStateLists
    /\ wt_args = NoArgs
    /\ word_times = <<>>
    /\ AuxIdle

\* The greedy one-level assigner marks a copy of the list.
GreedyAssign ==
    /\ pc = "lists"
    /\ ref_states' = Greedy1_assign_caption_levels(states)
    /\ pc' = "ref_assigned"
    /\ UNCHANGED <<impl, cfg, segments, clip_start, clip_end, states, wt_args, word_times,
                   rendered, ctor_args, loop_seg, loop_i, loop_count, wrap_args, wrapped,
                   text_clips, overlapping_found>>

\* The fixed-cycle assign_caption_levels marks the list itself.
CycleAssignList ==
    /\ pc = "ref_assigned" /\ impl = "cycle"
    /\ states' = Cycle_assign_caption_levels(states)
    /\ pc' = "both_assigned"
    /\ UNCHANGED <<impl, cfg, segments, clip_start, clip_end, wt_args, word_times, auxVars>>

NextAssign == GreedyAssign \/ CycleAssignList

SpecAssign == InitAssign /\ [][NextAssign]_vars

-----------------------------------------------------------------------------
(* Construction, and the fixed-cycle generate_states loop by loop *)

MaxIterations == 10

\* Sliding-window CaptionGenerator.__init__: the fields it sets.
Sliding_init(a) ==
    [lead_in_sec |-> Ms(a.lead_in_ms), min_visibility_sec |-> Ms(a.min_visibility_ms),
     overlap_sec |-> Ms(a.overlap_ms), max_words |-> a.max_words, min_words |-> 0]

\* Fixed-cycle CaptionGenerator.__init__: the fields it sets.
Cycle_init(a) ==
    [lead_in_sec |-> 0, min_visibility_sec |-> Ms(a.min_visibility_ms), overlap_sec |-> 0,
     max_words |-> a.max_words, min_words |-> a.min_words]

\* Constructor arguments a caller may pass; a parameter the class does not
\* have is 0.
SlidingCtorArgs ==
    { [lead_in_ms |-> DefaultLeadInMs, min_visibility_ms |-> mv, overlap_ms |-> DefaultOverlapMs,
       min_words |-> 0, max_words |-> DefaultMaxWords] : mv \in {DefaultMinVisibilityMs, 0} }

CycleCtorArgs ==
    { [lead_in_ms |-> 0, min_visibility_ms |-> a[1], overlap_ms |-> 0,
       min_words |-> a[2], max_words |-> a[3]] :
          a \in { <<CycleDefaultMinVisibilityMs, CycleDefaultMinWords, CycleDefaultMaxWords>>,
                  <<CycleDefaultMinVisibilityMs, 2, 3>>,
                  <<CycleDefaultMinVisibilityMs, 2, 1>>,
                  <<CycleDefaultMinVisibilityMs, 0, 3>>,
                  <<300, CycleDefaultMinWords, CycleDefaultMaxWords>>,
                  <<600, CycleDefaultMinWords, CycleDefaultMaxWords>>,
                  <<0, CycleDefaultMinWords, CycleDefaultMaxWords>> } }

\* seq[k] of Python, k 0-based, a negative k counting from the end.
PyIndex(seq, k) == IF k < 0 THEN seq[Len(seq) + k + 1] ELSE seq[k + 1]

\* One iteration of "while i < len(words)": the word_count it settles on and
\* the states it appends.
Cycle_iteration(c, seg, words, wt, adj_start, adj_end, i) ==
    LET total_duration == adj_end - adj_start
        avg_time_per_word == total_duration \div Len(words)
        word_count == Min(determine_word_count(c, i, Len(words), avg_time_per_word), Len(words) - i)
        caption_text == SubSeq(words, i + 1, i + word_count)
        on0 == IF i < Len(wt) THEN PyIndex(wt, i)[1]
               ELSE adj_start + (i * total_duration) \div Len(words)
        last_word_idx == Min(i + word_count - 1, Len(wt) - 1)
        off0 == IF last_word_idx < Len(wt) THEN PyIndex(wt, last_word_idx)[2] ELSE adj_end
        t == Cycle_group_timing(c, adj_start, adj_end, on0, off0)
    IN  [word_count |-> word_count,
         emitted |-> IF Cycle_valid_timing(t[1], t[2])
                     THEN << CaptionState(caption_text, t[1], t[2], seg.index, PrimaryY) >>
                     ELSE <<>>]

InitCtor ==
    /\ \/ impl = "sliding" /\ ctor_args \in SlidingCtorArgs
       \/ impl = "cycle" /\ ctor_args \in CycleCtorArgs
    /\ cfg = <<>>
    /\ segments \in SegmentLists
    /\ \E cl \in Clips : clip_start = cl[1] /\ clip_end = cl[2]
    /\ pc = "new"
    /\ states = <<>>
    /\ wt_args = NoArgs
    /\ word_times = <<>>
    /\ rendered = <<>>
    /\ loop_seg = 0
    /\ loop_i = 0
    /\ loop_count = 0
    /\ wrap_args = <<>>
    /\ wrapped = <<>>
    /\ RunIdle

SlidingInit ==
    /\ pc = "new" /\ impl = "sliding"
    /\ cfg' = Sliding_init(ctor_args)
    /\ pc' = "start"
    /\ UNCHANGED <<impl, segments, clip_start, clip_end, states, wt_args, word_times, auxVars>>

CycleInit ==
    /\ pc = "new" /\ impl = "cycle"
    /\ cfg' = Cycle_init(ctor_args)
    /\ pc' = "start"
    /\ UNCHANGED <<impl, segments, clip_start, clip_end, states, wt_args, word_times, auxVars>>

\* "for seg in segments:" takes the next segment: it is dropped ("continue"),
\* or its word times are computed and the while loop starts at i = 0.
CycleNextSegment ==
    /\ pc \in {"start", "for"} /\ impl = "cycle"
    /\ loop_seg < Len(segments)
    /\ LET seg == segments[loop_seg + 1]
           adj_start == Max(0, seg.start - clip_start)
           adj_end == Min(clip_end - clip_start, seg.end - clip_start)
           words == tokenize(seg.text)
       IN  IF adj_end <= adj_start \/ words = <<>>
           THEN /\ pc' = "for"
                /\ UNCHANGED <<word_times, loop_i, loop_count>>
           ELSE /\ pc' = "while"
                /\ word_times' = Cycle_compute_word_times(cfg, adj_start, adj_end, Len(words))
                /\ loop_i' = 0
                /\ loop_count' = 0
    /\ loop_seg' = loop_seg + 1
    /\ UNCHANGED <<impl, cfg, segments, clip_start, clip_end, states, wt_args,
                   rendered, ctor_args, wrap_args, wrapped, runVars>>

\* One iteration of the while loop, ending with "i += word_count".
CycleGroupStep ==
    /\ pc = "while"
    /\ loop_count < MaxIterations
    /\ LET seg == segments[loop_seg]
           adj_start == Max(0, seg.start - clip_start)
           adj_end == Min(clip_end - clip_start, seg.end - clip_start)
           words == tokenize(seg.text)
           it == Cycle_iteration(cfg, seg, words, word_times, adj_start, adj_end, loop_i)
       IN  /\ loop_i < Len(words)
           /\ states' = states \o it.emitted
           /\ loop_i' = loop_i + it.word_count
    /\ loop_count' = loop_count + 1
    /\ UNCHANGED <<impl, cfg, segments, clip_start, clip_end, pc, wt_args, word_times,
                   rendered, ctor_args, loop_seg, wrap_args, wrapped, runVars>>

\* "while i < len(words)" is false: back to the for loop.
CycleEndWhile ==
    /\ pc = "while"
    /\ loop_i >= Len(tokenize(segments[loop_seg].text))
    /\ pc' = "for"
    /\ UNCHANGED <<impl, cfg, segments, clip_start, clip_end, states, wt_args, word_times, auxVars>>

\* The for loop is over: "return sorted(states, key=...)".
CycleReturn ==
    /\ pc \in {"start", "for"} /\ impl = "cycle"
    /\ loop_seg = Len(segments)
    /\ states' = sorted(states)
    /\ pc' = "generated"
    /\ UNCHANGED <<impl, cfg, segments, clip_start, clip_end, wt_args, word_times, auxVars>>

NextCtor ==
    \/ SlidingInit \/ CycleInit
    \/ SlidingGenerate
    \/ CycleNextSegment \/ CycleGroupStep \/ CycleEndWhile \/ CycleReturn

\* A generator is constructed from the caller's arguments and generate_states
\* is called on it; the fixed-cycle one runs loop iteration by loop iteration.
SpecCtor == InitCtor /\ [][NextCtor]_vars

-----------------------------------------------------------------------------
(* The sliding-window MoviePy runner: src/tools/run_builder_moviepy.py *)

RunnerMinDurationMs == 120
DefaultVideoDurationMs == 33230

\* Insert a spec into a list sorted by start_time, after every spec whose
\* start_time is not greater (stable).
RECURSIVE InsertByStart(_, _)
InsertByStart(sorted_list, spec) ==
    IF sorted_list = <<>> THEN <<spec>>
    ELSE IF spec.start_time < Head(sorted_list).start_time THEN <<spec>> \o sorted_list
    ELSE <<Head(sorted_list)>> \o InsertByStart(Tail(sorted_list), spec)

\* sorted(text_clips_specs, key=lambda x: x['start_time']).
RECURSIVE sorted_by_start(_)
sorted_by_start(list) ==
    IF list = <<>> THEN <<>>
    ELSE InsertByStart(sorted_by_start(SubSeq(list, 1, Len(list) - 1)), list[Len(list)])

\* "Ensure this caption doesn't start before the previous one ends": the
\* previous caption's end is taken from its spec.
Runner_start_time(sorted_specs, i) ==
    LET prev_end == sorted_specs[i - 1].start_time
                        + (sorted_specs[i - 1].end_time - sorted_specs[i - 1].start_time)
    IN  IF i > 1 /\ sorted_specs[i].start_time < prev_end THEN prev_end
        ELSE sorted_specs[i].start_time

\* The clip created for sorted_specs[i] (1-based).
Runner_clip(sorted_specs, i) ==
    LET start_time == Runner_start_time(sorted_specs, i)
        end0 == IF i < Len(sorted_specs) THEN sorted_specs[i + 1].start_time
                ELSE sorted_specs[i].end_time
        end_time == IF end0 - start_time < Ms(RunnerMinDurationMs)
                    THEN start_time + Ms(RunnerMinDurationMs) ELSE end0
    IN  [start |-> start_time, duration |-> end_time - start_time]

\* The loop "for i, spec in enumerate(sorted_specs)" (every TextClip is
\* created).
RECURSIVE Runner_clips(_, _)
Runner_clips(sorted_specs, clips) ==
    IF Len(clips) = Len(sorted_specs) THEN clips
    ELSE Runner_clips(sorted_specs, Append(clips, Runner_clip(sorted_specs, Len(clips) + 1)))

\* "Validate no overlapping captions".
Runner_overlapping_found(clips) ==
    \E i \in 1..(Len(clips) - 1) : clips[i].start + clips[i].duration > clips[i + 1].start

\* The runner constructs CaptionGenerator(180, 120, 50, 5) and calls
\* generate_states(segments, clip_start=0.0, clip_end=video_duration).
InitRunner ==
    /\ impl = "sliding"
    /\ cfg = Sliding_init([lead_in_ms |-> DefaultLeadInMs, min_visibility_ms |-> DefaultMinVisibilityMs,
                           overlap_ms |-> DefaultOverlapMs, min_words |-> 0,
                           max_words |-> DefaultMaxWords])
    /\ segments \in SegmentLists
    /\ clip_start = 0
    /\ clip_end \in {Ms(700), Ms(DefaultVideoDurationMs)}
    /\ pc = "run_start"
    /\ states = <<>>
    /\ wt_args = NoArgs
    /\ word_times = <<>>
    /\ AuxIdle

\* generate_states, then every state is forced to y = 260; no level
\* assignment is made.
RunnerGenerateStates ==
    /\ pc = "run_start"
    /\ LET generated == Sliding_generate_states(cfg, segments, clip_start, clip_end)
       IN  states' = [i \in 1..Len(generated) |-> [generated[i] EXCEPT !.y = PrimaryY]]
    /\ pc' = "run_states"
    /\ UNCHANGED <<impl, cfg, segments, clip_start, clip_end, wt_args, word_times, auxVars>>

RunnerTextClipSpecs ==
    /\ pc = "run_states"
    /\ rendered' = generate_text_clips(states)
    /\ pc' = "run_specs"
    /\ UNCHANGED <<impl, cfg, segments, clip_start, clip_end, states, wt_args, word_times,
                   ctor_args, loop_seg, loop_i, loop_count, wrap_args, wrapped, runVars>>

RunnerCreateClips ==
    /\ pc = "run_specs"
    /\ text_clips' = Runner_clips(sorted_by_start(rendered), <<>>)
    /\ pc' = "run_clips"
    /\ UNCHANGED <<impl, cfg, segments, clip_start, clip_end, states, wt_args, word_times,
                   rendered, ctor_args, loop_seg, loop_i, loop_count, wrap_args, wrapped,
                   ref_states, overlapping_found>>

RunnerValidate ==
    /\ pc = "run_clips"
    /\ overlapping_found' = Runner_overlapping_found(text_clips)
    /\ pc' = "run_validated"
    /\ UNCHANGED <<impl, cfg, segments, clip_start, clip_end, states, wt_args, word_times,
                   rendered, ctor_args, loop_seg, loop_i, loop_count, wrap_args, wrapped,
                   ref_states, text_clips>>

NextRunner ==
    RunnerGenerateStates \/ RunnerTextClipSpecs \/ RunnerCreateClips \/ RunnerValidate

SpecRunner == InitRunner /\ [][NextRunner]_vars

-----------------------------------------------------------------------------
(* The fixed-cycle MoviePy runner's timing sweep:
   src/AutoCaptions/tools/run_builder_moviepy.py.

   The sweep adds and subtracts Python floats and compares the results with
   0.120, so its times are modelled as binary floating-point numbers rounded
   to nearest, ties to even, with MantissaBits significant bits (Python's
   float has 53).  A float is written as an integer count of quanta of
   2^-QuantumBits seconds; every float in use is a whole number of quanta. *)

MantissaBits == 12
SweepMaxSpecs == 3
CycleRunnerMinDurationMs == 120

QuantumBits == MantissaBits + 6

RECURSIVE Pow2(_)
Pow2(n) == IF n = 0 THEN 1 ELSE 2 * Pow2(n - 1)

\* The weight of the last significand bit of the float nearest below n / d.
RECURSIVE FlUnit(_, _, _)
FlUnit(n, d, u) == IF n \div d < Pow2(MantissaBits) * u THEN u ELSE FlUnit(n, d, 2 * u)

\* The float nearest to n / d quanta (n >= 0, d > 0), ties to even.
FlRound(n, d) ==
    LET u == FlUnit(n, d, 1)
        q == n \div (d * u)
        r == n % (d * u)
    IN  IF 2 * r > d * u \/ (2 * r = d * u /\ q % 2 = 1) THEN (q + 1) * u ELSE q * u

\* a + b and a - b on floats.
FlAdd(a, b) == IF a + b >= 0 THEN FlRound(a + b, 1) ELSE 0 - FlRound(0 - (a + b), 1)

FlSub(a, b) == IF a - b >= 0 THEN FlRound(a - b, 1) ELSE 0 - FlRound(b - a, 1)

\* The float a decimal literal of t milliseconds denotes (0.120 is
\* FlOfMs(120)).
FlOfMs(t) == FlRound(t * Pow2(QuantumBits), 1000)

min_duration == FlOfMs(CycleRunnerMinDurationMs)

\* Clip specs as generate_text_clips returns them: start and end in
\* milliseconds before conversion, on the two caption levels.  All carry the
\* same one-word text, so the first pass (subset captions) marks none of them.
SweepStartsMs == {0, 105, 205, 500, 600}
SweepDurationsMs == {100, 300}

SweepSpecs ==
    { [text |-> <<<<"This">>>>, start_time |-> FlOfMs(on), end_time |-> FlOfMs(on + d),
       position_y |-> DefaultVideoHeight - y] :
        on \in SweepStartsMs, d \in SweepDurationsMs, y \in {PrimaryY, SecondaryY} }

SweepSpecLists == UNION { [1..n -> SweepSpecs] : n \in 1..SweepMaxSpecs }

\* specs_by_y[y_pos] after y_specs.sort(key=start_time): the specs of one Y
\* position with their index in sorted_specs, in start order.
RECURSIVE SweepGroup(_, _, _)
SweepGroup(sorted_specs, y_pos, i) ==
    IF i > Len(sorted_specs) THEN <<>>
    ELSE (IF sorted_specs[i].position_y = y_pos
          THEN <<[idx |-> i, start_time |-> sorted_specs[i].start_time,
                  end_time |-> sorted_specs[i].end_time]>>
          ELSE <<>>) \o SweepGroup(sorted_specs, y_pos, i + 1)

specs_by_y(sorted_specs, y_pos) == sorted_by_start(SweepGroup(sorted_specs, y_pos, 1))

\* min(next_start_candidates) for the clip at place i of y_specs.
MinNextStart(y_specs, i) ==
    CHOOSE t \in {y_specs[j].start_time : j \in (i + 1)..Len(y_specs)} :
        \A j \in (i + 1)..Len(y_specs) : t <= y_specs[j].start_time

\* The timing_map entry of the clip at place i of y_specs.
Sweep_timing(y_specs, i, last_clip_end_time) ==
    LET original_start == y_specs[i].start_time
        original_end == y_specs[i].end_time
        start_time == Max(original_start, last_clip_end_time)
        has_next == i < Len(y_specs)
        max_end_time == MinNextStart(y_specs, i)
        min_end_time == FlAdd(start_time, min_duration)
        capped == Max(Min(original_end, max_end_time), min_end_time)
        end_time == IF has_next
                    THEN (IF capped > max_end_time THEN max_end_time ELSE capped)
                    ELSE Max(original_end, FlAdd(start_time, min_duration))
    IN  IF has_next /\ min_end_time > max_end_time
        THEN [start_time |-> start_time, end_time |-> max_end_time, skip |-> TRUE]
        ELSE IF FlSub(end_time, start_time) < min_duration
        THEN [start_time |-> start_time, end_time |-> end_time, skip |-> TRUE]
        ELSE [start_time |-> start_time, end_time |-> end_time, skip |-> FALSE]

\* The forward sweep over one Y position; last_clip_end_time moves only past
\* clips that are kept.
RECURSIVE Sweep_level(_, _, _, _)
Sweep_level(y_specs, i, last_clip_end_time, timing_map) ==
    IF i > Len(y_specs) THEN timing_map
    ELSE LET timing == Sweep_timing(y_specs, i, last_clip_end_time)
         IN  Sweep_level(y_specs, i + 1,
                         IF timing.skip THEN last_clip_end_time ELSE timing.end_time,
                         [timing_map EXCEPT ![y_specs[i].idx] = timing])

\* The sweep over every Y position of ys.
RECURSIVE Sweep_levels(_, _, _)
Sweep_levels(sorted_specs, ys, timing_map) ==
    IF ys = {} THEN timing_map
    ELSE LET y_pos == CHOOSE y \in ys : TRUE
         IN  Sweep_levels(sorted_specs, ys \ {y_pos},
                          Sweep_level(specs_by_y(sorted_specs, y_pos), 1, 0, timing_map))

\* calculated_timings, in the order of sorted_specs, with the Y position of
\* each clip kept next to its timing.
calculated_timings(sorted_specs) ==
    LET default == [i \in 1..Len(sorted_specs) |->
                       [start_time |-> sorted_specs[i].start_time,
                        end_time |-> sorted_specs[i].end_time, skip |-> FALSE]]
        timing_map == Sweep_levels(sorted_specs,
                                   {sorted_specs[i].position_y : i \in 1..Len(sorted_specs)},
                                   default)
    IN  [i \in 1..Len(sorted_specs) |->
            [start_time |-> timing_map[i].start_time, end_time |-> timing_map[i].end_time,
             skip |-> timing_map[i].skip, position_y |-> sorted_specs[i].position_y]]

\* The base clips created: with_start(start_time).with_end(end_time) keeps
\* start and duration = end_time - start_time.
SweepCreated(timings) ==
    LET kept == SelectSeq(timings, LAMBDA t : ~t.skip)
    IN  [k \in 1..Len(kept) |->
            [start_time |-> kept[k].start_time,
             duration |-> FlSub(kept[k].end_time, kept[k].start_time),
             position_y |-> kept[k].position_y]]

\* The validation of base clips per Y position: consecutive clips in start
\* order, the end of a clip read back as start + duration.
Sweep_overlapping_found(clips) ==
    \E y_pos \in {clips[k].position_y : k \in 1..Len(clips)} :
        LET base_clips_sorted ==
                sorted_by_start(SelectSeq(clips, LAMBDA c : c.position_y = y_pos))
        IN  \E j \in 1..(Len(base_clips_sorted) - 1) :
                FlAdd(base_clips_sorted[j].start_time, base_clips_sorted[j].duration)
                    > base_clips_sorted[j + 1].start_time

InitSweep ==
    /\ impl = "cycle"
    /\ cfg = Cycle_init([lead_in_ms |-> 0, min_visibility_ms |-> CycleDefaultMinVisibilityMs,
                         overlap_ms |-> 0, min_words |-> CycleDefaultMinWords,
                         max_words |-> CycleDefaultMaxWords])
    /\ segments = <<>>
    /\ clip_start = 0
    /\ clip_end = Inf
    /\ pc = "sweep_specs"
    /\ states = <<>>
    /\ wt_args = NoArgs
    /\ word_times = <<>>
    /\ rendered \in SweepSpecLists
    /\ ctor_args = <<>>
    /\ loop_seg = 0
    /\ loop_i = 0
    /\ loop_count = 0
    /\ wrap_args = <<>>
    /\ wrapped = <<>>
    /\ RunIdle

\* sorted_specs = sorted(text_clips_specs, key=start_time).
SweepSortSpecs ==
    /\ pc = "sweep_specs"
    /\ rendered' = sorted_by_start(rendered)
    /\ pc' = "sweep_sorted"
    /\ UNCHANGED <<impl, cfg, segments, clip_start, clip_end, states, wt_args, word_times,
                   ctor_args, loop_seg, loop_i, loop_count, wrap_args, wrapped, runVars>>

\* The per-level sweep and the rebuild of calculated_timings.
SweepCalculateTimings ==
    /\ pc = "sweep_sorted"
    /\ text_clips' = calculated_timings(rendered)
    /\ pc' = "sweep_timed"
    /\ UNCHANGED <<impl, cfg, segments, clip_start, clip_end, states, wt_args, word_times,
                   rendered, ctor_args, loop_seg, loop_i, loop_count, wrap_args, wrapped,
                   ref_states, overlapping_found>>

\* The clips are created and validated.
SweepValidate ==
    /\ pc = "sweep_timed"
    /\ overlapping_found' = Sweep_overlapping_found(SweepCreated(text_clips))
    /\ pc' = "sweep_validated"
    /\ UNCHANGED <<impl, cfg, segments, clip_start, clip_end, states, wt_args, word_times,
                   rendered, ctor_args, loop_seg, loop_i, loop_count, wrap_args, wrapped,
                   ref_states, text_clips>>

NextSweep == SweepSortSpecs \/ SweepCalculateTimings \/ SweepValidate

SpecSweep == InitSweep /\ [][NextSweep]_vars

-----------------------------------------------------------------------------
(* Direct calls of wrap_text, on texts given character by character *)

MaxTextLen == 5
MaxWidth == 4

\* The characters of the modelled texts: a letter, a blank, a newline.
Chars == {"a", " ", "\n"}

Texts == UNION { [1..n -> Chars] : n \in 0..MaxTextLen }

Widths == -1..MaxWidth

\* Mutant of IsSpace: only the blank separates words.
IsSpace_blank(ch) == ch = " "

\* The characters str.split() splits on.
IsSpace(ch) == ch \in {" ", "\n"}

RECURSIVE split_loop(_, _, _)
split_loop(text, word, acc) ==
    LET closed == IF word # <<>> THEN Append(acc, word) ELSE acc
    IN  IF text = <<>> THEN closed
        ELSE IF IsSpace(Head(text)) THEN split_loop(Tail(text), <<>>, closed)
        ELSE split_loop(Tail(text), Append(word, Head(text)), acc)

\* text.split(): the maximal runs of non-whitespace characters.
split(text) == split_loop(text, <<>>, <<>>)

\* sep.join(parts) for a one-character separator.
RECURSIVE join(_, _)
join(sep, parts) ==
    IF parts = <<>> THEN <<>>
    ELSE IF Len(parts) = 1 THEN parts[1]
    ELSE parts[1] \o <<sep>> \o join(sep, Tail(parts))

\* wrap_text(text, max_chars).
wrap_text(text, max_chars) ==
    LET lines == wrap_lines(split(text), max_chars)
    IN  join("\n", [k \in 1..Len(lines) |-> join(" ", lines[k])])

InitWrap ==
    /\ wrap_args \in [text : Texts, max_chars : Widths]
    /\ wrapped = <<>>
    /\ RunIdle
    /\ pc = "wrap_start"
    /\ impl = "sliding"
    /\ cfg \in SlidingConfigs /\ cfg.max_words = DefaultMaxWords
    /\ segments = <<>>
    /\ clip_start = 0
    /\ clip_end = Inf
    /\ states = <<>>
    /\ wt_args = NoArgs
    /\ word_times = <<>>
    /\ rendered = <<>>
    /\ ctor_args = <<>>
    /\ loop_seg = 0
    /\ loop_i = 0
    /\ loop_count = 0

WrapText ==
    /\ pc = "wrap_start"
    /\ wrapped' = << wrap_text(wrap_args.text, wrap_args.max_chars) >>
    /\ pc' = "wrapped"
    /\ UNCHANGED <<impl, cfg, segments, clip_start, clip_end, states, wt_args, word_times,
                   rendered, ctor_args, loop_seg, loop_i, loop_count, wrap_args, runVars>>

\* The result is wrapped again to the same width.
WrapAgain ==
    /\ pc = "wrapped"
    /\ wrapped' = Append(wrapped, wrap_text(wrapped[1], wrap_args.max_chars))
    /\ pc' = "rewrapped"
    /\ UNCHANGED <<impl, cfg, segments, clip_start, clip_end, states, wt_args, word_times,
                   rendered, ctor_args, loop_seg, loop_i, loop_count, wrap_args, runVars>>

\* The same text is wrapped to width 1.
WrapWidthOne ==
    /\ pc = "wrapped"
    /\ wrapped' = Append(wrapped, wrap_text(wrap_args.text, 1))
    /\ pc' = "wrapped_one"
    /\ UNCHANGED <<impl, cfg, segments, clip_start, clip_end, states, wt_args, word_times,
                   rendered, ctor_args, loop_seg, loop_i, loop_count, wrap_args, runVars>>

NextWrap == WrapText \/ WrapAgain \/ WrapWidthOne

SpecWrap == InitWrap /\ [][NextWrap]_vars

-----------------------------------------------------------------------------
(* Direct calls of compute_word_times *)

\* Segment bounds (ms) handed to compute_word_times, seg_start <= seg_end.
TimePoints == {0, 100, 600, 800, 1200}

WordTimeArgs ==
    { [seg_start |-> Ms(se[1]), seg_end |-> Ms(se[2]), word_count |-> k] :
          se \in {p \in TimePoints \X TimePoints : p[1] <= p[2]},
          k \in (1..MaxWordCount) \cup {Len(ExampleWords)} }

InitWT ==
    /\ \/ impl = "sliding" /\ cfg \in SlidingConfigs
       \/ impl = "cycle" /\ cfg \in CycleConfigs
    /\ wt_args \in WordTimeArgs
    /\ pc = "wt_start"
    /\ word_times = <<>>
    /\ segments = <<>>
    /\ clip_start = 0
    /\ clip_end = Inf
    /\ states = <<>>
    /\ AuxIdle

SlidingComputeWordTimes ==
    /\ pc = "wt_start" /\ impl = "sliding"
    /\ word_times' = Sliding_compute_word_times(cfg, wt_args.seg_start, wt_args.seg_end, wt_args.word_count)
    /\ pc' = "wt_done"
    /\ UNCHANGED <<impl, cfg, segments, clip_start, clip_end, states, wt_args, auxVars>>

CycleComputeWordTimes ==
    /\ pc = "wt_start" /\ impl = "cycle"
    /\ word_times' = Cycle_compute_word_times(cfg, wt_args.seg_start, wt_args.seg_end, wt_args.word_count)
    /\ pc' = "wt_done"
    /\ UNCHANGED <<impl, cfg, segments, clip_start, clip_end, states, wt_args, auxVars>>

NextWT == SlidingComputeWordTimes \/ CycleComputeWordTimes

SpecWT == InitWT /\ [][NextWT]_vars

-----------------------------------------------------------------------------
(* Properties *)

Returned == pc \in {"generated", "assigned"}

\* The input segment a state was generated from (indices are distinct).
SegmentOf(st) == segments[CHOOSE p \in 1..Len(segments) : segments[p].index = st.seg_idx]

\* Clip-adjusted bounds of a segment, as generate_states computes them.
AdjStart(seg) == Max(0, seg.start - clip_start)

AdjEnd(seg) == Min(clip_end - clip_start, seg.end - clip_start)

\* The segment is not dropped by generate_states.
Kept(seg) == AdjEnd(seg) > AdjStart(seg) /\ tokenize(seg.text) # <<>>

\* Position of a word in the example sentence (its words are distinct).
WordPos(w) == CHOOSE k \in 1..Len(ExampleWords) : ExampleWords[k] = w

\* The states of one segment, in list order, and their word counts.
StatesOfSegment(seg) == SelectSeq(states, LAMBDA st : st.seg_idx = seg.index)

GroupSizes(seg) == LET l == StatesOfSegment(seg) IN [k \in 1..Len(l) |-> Len(l[k].text)]

\* The documented rhythm 1, 2, 3, 1, 2, 3, ... over n words: the sizes of
\* the groups from group number g (0-based) on, the last one cut short.
RECURSIVE CycleSizes(_, _)
CycleSizes(n, g) ==
    IF n <= 0 THEN <<>>
    ELSE LET size == Min(1 + (g % 3), n) IN <<size>> \o CycleSizes(n - size, g + 1)

\* i comes before j when the states are taken in ascending on order.
OnOrder(i, j) == states[i].on < states[j].on \/ (states[i].on = states[j].on /\ i < j)

\* C1: after generate_states and assign_caption_levels (either
\* implementation), of two non-skipped states on the same level the one
\* earlier in on order ends no later than the other starts.
C1_NonOverlapPerLevel ==
    pc = "assigned" =>
        \A i, j \in 1..Len(states) :
            (/\ i # j /\ OnOrder(i, j)
             /\ ~states[i].skip /\ ~states[j].skip
             /\ states[i].y = states[j].y)
            => states[i].off <= states[j].on

\* C1 witness: the two-level assigner used both levels, skipped a state and
\* kept two states on one level.
C1_Witness ==
    /\ pc = "assigned" /\ impl = "sliding"
    /\ \E i \in 1..Len(states) : states[i].skip
    /\ \E i \in 1..Len(states) : ~states[i].skip /\ states[i].y = SecondaryY
    /\ \E i, j \in 1..Len(states) :
           i < j /\ ~states[i].skip /\ ~states[j].skip /\ states[i].y = states[j].y

\* C2 (as claimed): in fixed-cycle mode every non-skipped state is visible
\* for at least min_visibility.
C2_MinVisibilityCycle ==
    (pc = "assigned" /\ impl = "cycle") =>
        \A i \in 1..Len(states) :
            ~states[i].skip => states[i].off - states[i].on >= cfg.min_visibility_sec

C4_CycleGroupSizes ==
    (Returned /\ impl = "cycle" /\ cfg.min_words = 1 /\ cfg.max_words = 3) =>
        \A p \in 1..Len(segments) :
            LET seg == segments[p]
                n == Len(tokenize(seg.text))
            IN  (Kept(seg) /\ AdjEnd(seg) - AdjStart(seg) >= n * cfg.min_visibility_sec)
                => GroupSizes(seg) = CycleSizes(n, 0)

\* C5 (as claimed): in fixed-cycle mode every non-skipped state has at most
\* max_words words, and at least min_words words unless it is the last
\* group of its segment.
C5_WordCountBound ==
    (pc = "assigned" /\ impl = "cycle") =>
        \A i \in 1..Len(states) :
            LET st == states[i]
                words == tokenize(SegmentOf(st).text)
            IN  ~st.skip =>
                    /\ Len(st.text) <= cfg.max_words
                    /\ Len(st.text) >= cfg.min_words \/ st.text[Len(st.text)] = words[Len(words)]

\* Two input segments whose time ranges overlap by 0.5 s.
TwoOverlappingSegments ==
    /\ Len(segments) = 2
    /\ Min(segments[1].end, segments[2].end) - Max(segments[1].start, segments[2].start) = Ms(500)

\* No state is skipped, the first segment's states are on level 0 and the
\* second's on level 1.
FirstOnLevel0SecondOnLevel1 ==
    \A i \in 1..Len(states) :
        /\ ~states[i].skip
        /\ states[i].seg_idx = segments[1].index => states[i].y = PrimaryY
        /\ states[i].seg_idx = segments[2].index => states[i].y = SecondaryY

\* C6 (as claimed): two segments overlapping by 0.5 s are scheduled on
\* level 0 and level 1 respectively, nothing skipped.
C6_TwoSegmentsTwoLevels ==
    (pc = "assigned" /\ impl = "sliding" /\ TwoOverlappingSegments)
        => FirstOnLevel0SecondOnLevel1

\* Both segments have one word, are kept, and the first starts no later
\* than the second and carries the lower index.
TwoSingleWordSegmentsInOrder ==
    /\ TwoOverlappingSegments
    /\ \A p \in 1..2 : Kept(segments[p]) /\ Len(tokenize(segments[p].text)) = 1
    /\ segments[1].start <= segments[2].start
    /\ segments[1].index < segments[2].index

\* C6 (amended): two single-word segments overlapping by 0.5 s, neither
\* dropped, the first starting no later than the second and carrying the
\* lower index: nothing is skipped, the first segment's state is on level 0
\* and the second's on level 1.
C6_TwoSingleWordSegmentsTwoLevels ==
    (pc = "assigned" /\ impl = "sliding" /\ TwoSingleWordSegmentsInOrder)
        => FirstOnLevel0SecondOnLevel1

\* C6 witness: such a pair went through the assigner and the second
\* segment's state sits on level 1.
C6_Witness ==
    /\ pc = "assigned" /\ impl = "sliding" /\ TwoSingleWordSegmentsInOrder
    /\ Len(states) = 2
    /\ \E i \in 1..Len(states) :
           states[i].seg_idx = segments[2].index /\ states[i].y = SecondaryY

\* C7: compute_word_times(seg_start <= seg_end, k >= 1) returns k intervals,
\* contiguous, with non-decreasing starts, each inside [seg_start, seg_end].
C7_WordTimesMonotonic ==
    pc = "wt_done" =>
        /\ Len(word_times) = wt_args.word_count
        /\ \A i \in 1..Len(word_times) :
               /\ wt_args.seg_start <= word_times[i][1]
               /\ word_times[i][1] <= word_times[i][2]
               /\ word_times[i][2] <= wt_args.seg_end
        /\ \A i \in 1..(Len(word_times) - 1) :
               /\ word_times[i][2] = word_times[i + 1][1]
               /\ word_times[i][1] <= word_times[i + 1][1]

\* C7 witness: a call where the visibility floor made the slots longer than
\* the segment, so that a slot before the last one was cut at seg_end.
C7_Witness ==
    /\ pc = "wt_done"
    /\ wt_args.seg_start < wt_args.seg_end
    /\ \E i \in 1..(Len(word_times) - 1) :
           word_times[i][1] < wt_args.seg_end /\ word_times[i][2] = wt_args.seg_end

\* C8 (as claimed): for seg_end > seg_start every interval returned by
\* compute_word_times has end > start.
C8_WordTimesDisplayable ==
    (pc = "wt_done" /\ wt_args.seg_end > wt_args.seg_start) =>
        \A i \in 1..Len(word_times) : word_times[i][2] > word_times[i][1]

\* C9: every state returned by generate_states (either implementation)
\* satisfies off > on.
C9_OffAfterOn ==
    pc = "generated" => \A i \in 1..Len(states) : states[i].off > states[i].on

\* C9 witness: a fixed-cycle run in which a group collapsed to off = on and
\* was left out, so that the states hold fewer words than the segment.
C9_Witness ==
    /\ pc = "generated" /\ impl = "cycle"
    /\ Len(segments) = 1 /\ states # <<>>
    /\ Len(states) < Len(tokenize(segments[1].text))
    /\ \A i \in 1..Len(states) : Len(states[i].text) = 1

\* C10: the list returned by generate_states is ordered by (on, seg_idx);
\* states with equal (on, seg_idx) keep their generation order (word order
\* within their segment).
C10_SortedByOnThenIndex ==
    pc = "generated" =>
        \A i \in 1..(Len(states) - 1) :
            LET a == states[i]
                b == states[i + 1]
            IN  \/ a.on < b.on
                \/ a.on = b.on /\ a.seg_idx < b.seg_idx
                \/ /\ a.on = b.on /\ a.seg_idx = b.seg_idx
                   /\ WordPos(a.text[Len(a.text)]) < WordPos(b.text[Len(b.text)])

\* C10 witness: the segments came with descending indices, two states of
\* different segments tie on on, and two states of one segment tie too.
C10_Witness ==
    /\ pc = "generated"
    /\ Len(segments) = 2 /\ segments[1].index > segments[2].index
    /\ \E i \in 1..(Len(states) - 1) :
           states[i].on = states[i + 1].on /\ states[i].seg_idx < states[i + 1].seg_idx
    /\ \E i \in 1..(Len(states) - 1) :
           states[i].on = states[i + 1].on /\ states[i].seg_idx = states[i + 1].seg_idx

\* The states a renderer must emit, in input order.
NonSkipped == SelectSeq(states, LAMBDA st : ~st.skip)

\* C11 (as claimed): both adapters emit one entry per non-skipped state, in
\* input order, none for a skipped one, with the state's on / off unchanged.
C11_RenderedTimesUnchanged ==
    (pc \in {"clips", "script"}) =>
        /\ Len(rendered) = Len(NonSkipped)
        /\ \A k \in 1..Len(rendered) :
               /\ rendered[k].start_time = NonSkipped[k].on
               /\ rendered[k].end_time = NonSkipped[k].off

\* t is the multiple of a millisecond nearest to u.
NearestMs(t, u) == t % Scale = 0 /\ 2 * (t - u) <= Scale /\ 2 * (u - t) <= Scale

\* C11 (amended): both adapters emit one entry per non-skipped state, in
\* input order, none for a skipped one; generate_text_clips passes on / off
\* unchanged, generate_filter_script prints them rounded to the millisecond.
C11_RenderedPerNonSkippedState ==
    (pc \in {"clips", "script"}) =>
        /\ Len(rendered) = Len(NonSkipped)
        /\ \A k \in 1..Len(rendered) :
               /\ pc = "clips" =>
                      /\ rendered[k].start_time = NonSkipped[k].on
                      /\ rendered[k].end_time = NonSkipped[k].off
               /\ pc = "script" =>
                      /\ NearestMs(rendered[k].start_time, NonSkipped[k].on)
                      /\ NearestMs(rendered[k].end_time, NonSkipped[k].off)

\* C11 witness: a script was written for a list with a skipped state and a
\* state whose on is not a whole number of milliseconds.
C11_Witness ==
    /\ pc = "script"
    /\ \E i \in 1..Len(states) : states[i].skip
    /\ \E k \in 1..Len(rendered) : rendered[k].start_time # NonSkipped[k].on

\* The configuration the specification calls valid.
ValidCtorArgs(a) ==
    /\ a.min_visibility_ms > 0
    /\ a.max_words >= 1
    /\ impl = "cycle" => (a.min_words >= 1 /\ a.max_words >= a.min_words)

\* C12 (as claimed): a generator exists, and generate_states runs on it, only
\* for constructor arguments that are valid.
C12_InvalidConfigRejected ==
    (pc # "new") => ValidCtorArgs(ctor_args)

\* C14 (as claimed): for every configuration the constructor accepted, each
\* iteration of the fixed-cycle while loop consumes at least one word, so i
\* strictly increases.
C14_EachIterationConsumesAWord ==
    [][(pc = "while" /\ loop_count' = loop_count + 1) => loop_i' > loop_i]_vars

\* The loop-by-loop run returns what Cycle_generate_states computes in one
\* step, whenever the configuration is valid.
Cycle_loop_agrees ==
    (pc = "generated" /\ impl = "cycle" /\ ValidCtorArgs(ctor_args)) =>
        states = Cycle_generate_states(cfg, segments, clip_start, clip_end)

\* With a valid configuration every iteration consumes a word.
Cycle_valid_iterations_consume ==
    [][(pc = "while" /\ loop_count' = loop_count + 1 /\ ValidCtorArgs(ctor_args))
           => loop_i' > loop_i]_vars

\* The list without its element at position p.
Without(list, p) == SubSeq(list, 1, p - 1) \o SubSeq(list, p + 1, Len(list))

\* generate_states of the implementation in use.
GenerateStatesOf(segs) ==
    IF impl = "sliding" THEN Sliding_generate_states(cfg, segs, clip_start, clip_end)
    ELSE Cycle_generate_states(cfg, segs, clip_start, clip_end)

\* C13: a segment with no words, or with adj_end <= adj_start, contributes no
\* state, and the returned list is the one generate_states returns for the
\* input without that segment.
C13_DroppedSegmentIsAbsent ==
    \A p \in 1..Len(segments) :
        ~Kept(segments[p]) =>
            /\ Returned => \A i \in 1..Len(states) : states[i].seg_idx # segments[p].index
            /\ pc = "generated" => states = GenerateStatesOf(Without(segments, p))

\* C13 witness: a segment that has words was dropped for its time range and
\* the other segment produced states.
C13_Witness ==
    /\ pc = "generated"
    /\ states # <<>>
    /\ \E p \in 1..Len(segments) :
           /\ tokenize(segments[p].text) # <<>>
           /\ AdjEnd(segments[p]) <= AdjStart(segments[p])

\* A second case of C13: the dropped segment is the one without words.
C13_WitnessNoWords ==
    /\ pc = "generated"
    /\ states # <<>>
    /\ \E p \in 1..Len(segments) : tokenize(segments[p].text) = <<>>

\* The parts of a text between its newlines.
RECURSIVE LinesFrom(_, _)
LinesFrom(text, line) ==
    IF text = <<>> THEN << line >>
    ELSE IF Head(text) = "\n" THEN << line >> \o LinesFrom(Tail(text), <<>>)
    ELSE LinesFrom(Tail(text), Append(line, Head(text)))

\* The lines of a wrap_text result (the empty result has none).
LinesOf(text) == IF text = <<>> THEN <<>> ELSE LinesFrom(text, <<>>)

\* C15: wrapping a wrapped text again to the same width changes nothing.
C15_WrapIdempotent ==
    (pc = "rewrapped") => wrapped[2] = wrapped[1]

\* C15 witness: a result of several lines, one of them holding two words,
\* was wrapped again.
C15_Witness ==
    /\ pc = "rewrapped"
    /\ Len(LinesOf(wrapped[1])) >= 2
    /\ \E k \in 1..Len(LinesOf(wrapped[1])) : Len(split(LinesOf(wrapped[1])[k])) = 2

\* A second case of C15: a result with a word longer than the width, and a
\* text that held a newline, were wrapped again.
C15_WitnessLongWord ==
    /\ pc = "rewrapped"
    /\ wrap_args.max_chars >= 1
    /\ \E j \in 1..Len(wrap_args.text) : wrap_args.text[j] = "\n"
    /\ \E k \in 1..Len(LinesOf(wrapped[1])) : Len(LinesOf(wrapped[1])[k]) > wrap_args.max_chars

\* C16: every line of the result is at most max_chars long, unless it is a
\* single word longer than max_chars.
C16_LineLengthBound ==
    (pc = "wrapped") =>
        \A k \in 1..Len(LinesOf(wrapped[1])) :
            LET line == LinesOf(wrapped[1])[k]
            IN  \/ Len(line) <= wrap_args.max_chars
                \/ /\ Len(split(line)) = 1
                   /\ split(line)[1] = line

\* C16 witness: a result with a line that is one word longer than the width
\* and a line within the width.
C16_Witness ==
    /\ pc = "wrapped"
    /\ wrap_args.max_chars >= 1
    /\ \E k \in 1..Len(LinesOf(wrapped[1])) : Len(LinesOf(wrapped[1])[k]) <= wrap_args.max_chars
    /\ \E k \in 1..Len(LinesOf(wrapped[1])) : Len(LinesOf(wrapped[1])[k]) > wrap_args.max_chars

\* A second case of C16: a line of two words that fills the width exactly.
C16_WitnessFullLine ==
    /\ pc = "wrapped"
    /\ \E k \in 1..Len(LinesOf(wrapped[1])) :
           /\ Len(split(LinesOf(wrapped[1])[k])) = 2
           /\ Len(LinesOf(wrapped[1])[k]) = wrap_args.max_chars

\* C17: for max_chars < 1 the result is the one for max_chars = 1.
C17_WidthBelowOneIsWidthOne ==
    (pc = "wrapped_one" /\ wrap_args.max_chars < 1) => wrapped[1] = wrapped[2]

\* C17 witness: a text of two words, one of them longer than one character,
\* was wrapped to a negative width and to width 1.
C17_Witness ==
    /\ pc = "wrapped_one"
    /\ wrap_args.max_chars < 0
    /\ Len(split(wrap_args.text)) = 2
    /\ \E k \in 1..2 : Len(split(wrap_args.text)[k]) >= 2

\* Positions before i of the states accepted on the level with offset y.
AcceptedBefore(i, y) == { j \in 1..(i - 1) : ~states[j].skip /\ states[j].y = y }

\* The level with offset y accepts states[i]: it has accepted nothing before,
\* or the last state it accepted has off <= states[i].on.
LevelFree(i, y) ==
    \/ AcceptedBefore(i, y) = {}
    \/ LET last == CHOOSE j \in AcceptedBefore(i, y) : \A m \in AcceptedBefore(i, y) : m <= j
       IN  states[last].off <= states[i].on

\* states[i] overlaps the last state accepted on level 0 before it.
OverlapsLastOnLevel0(i) ==
    /\ AcceptedBefore(i, PrimaryY) # {}
    /\ LET last == CHOOSE j \in AcceptedBefore(i, PrimaryY) : \A m \in AcceptedBefore(i, PrimaryY) : m <= j
       IN  states[last].off > states[i].on /\ states[i].off > states[last].on

\* First fit: level 0 if it is free, else level 1 if it is free, else skip;
\* a state is on level 1 only if it overlaps the last one on level 0.
FirstFit ==
    \A i \in 1..Len(states) :
        /\ LevelFree(i, PrimaryY) => (~states[i].skip /\ states[i].y = PrimaryY)
        /\ (~LevelFree(i, PrimaryY) /\ LevelFree(i, SecondaryY))
               => (~states[i].skip /\ states[i].y = SecondaryY)
        /\ states[i].skip <=> (~LevelFree(i, PrimaryY) /\ ~LevelFree(i, SecondaryY))
        /\ (~states[i].skip /\ states[i].y = SecondaryY) => OverlapsLastOnLevel0(i)

\* states[i], states[j], states[k] overlap one another.
MutuallyOverlapping(i, j, k) ==
    \A a, b \in {i, j, k} : states[a].on < states[b].off

\* The first two of the three are on levels 0 and 1, the third is skipped.
TwoPlacedThirdSkipped(i, j, k) ==
    /\ ~states[i].skip /\ states[i].y = PrimaryY
    /\ ~states[j].skip /\ states[j].y = SecondaryY
    /\ states[k].skip

\* C19 (as claimed): first fit over the on-sorted list, and of any three
\* mutually overlapping states the first two get levels 0 and 1 and the third
\* is skipped.
C19_FirstFitAnyThree ==
    (pc = "assigned" /\ impl = "sliding") =>
        /\ FirstFit
        /\ \A i, j, k \in 1..Len(states) :
               (i < j /\ j < k /\ MutuallyOverlapping(i, j, k)) => TwoPlacedThirdSkipped(i, j, k)

\* C19 (amended): first fit over the on-sorted list, and of three consecutive
\* mutually overlapping states met when both levels are free the first two
\* get levels 0 and 1 and the third is skipped.
C19_FirstFitTwoLevels ==
    (pc = "assigned" /\ impl = "sliding") =>
        /\ FirstFit
        /\ \A i \in 1..(Len(states) - 2) :
               (/\ MutuallyOverlapping(i, i + 1, i + 2)
                /\ LevelFree(i, PrimaryY) /\ LevelFree(i, SecondaryY))
                   => TwoPlacedThirdSkipped(i, i + 1, i + 2)

\* C19 witness: three consecutive mutually overlapping states met with both
\* levels free, after earlier states were placed on both levels.
C19_Witness ==
    /\ pc = "assigned" /\ impl = "sliding"
    /\ \E i \in 1..(Len(states) - 2) :
           /\ MutuallyOverlapping(i, i + 1, i + 2)
           /\ LevelFree(i, PrimaryY) /\ LevelFree(i, SecondaryY)
           /\ AcceptedBefore(i, PrimaryY) # {} /\ AcceptedBefore(i, SecondaryY) # {}

\* This step is a call of assign_caption_levels.
AssignCall ==
    \/ pc = "generated" /\ pc' = "assigned"
    \/ pc = "assigned" /\ pc' = "reassigned"

\* C20: a call of assign_caption_levels keeps the list's length and order and
\* every state's text, on, off and seg_idx; a state it rejects (the states
\* with skip = true after the call) keeps its y and only gets skip = true;
\* skip is never reset to false.
C20_AssignFrame ==
    [][AssignCall =>
          /\ Len(states') = Len(states)
          /\ \A i \in 1..Len(states) :
                 /\ states'[i].text = states[i].text
                 /\ states'[i].on = states[i].on
                 /\ states'[i].off = states[i].off
                 /\ states'[i].seg_idx = states[i].seg_idx
                 /\ states'[i].skip => states'[i].y = states[i].y
                 /\ states[i].skip => states'[i].skip]_vars

\* C20 witness: the second call has returned a list of two segments' states
\* that holds skipped states and a state on level 1.
C20_Witness ==
    /\ pc = "reassigned"
    /\ Len(segments) = 2
    /\ \E i \in 1..Len(states) : states[i].skip
    /\ \E i \in 1..Len(states) : ~states[i].skip /\ states[i].y = SecondaryY

\* The segment the while loop is working on, its word count and its average
\* time per word.
LoopSegment == segments[loop_seg]

LoopWords == Len(tokenize(LoopSegment.text))

LoopAvg == (AdjEnd(LoopSegment) - AdjStart(LoopSegment)) \div LoopWords

\* This step is one iteration of the fixed-cycle while loop.
GroupIteration == pc = "while" /\ loop_count' = loop_count + 1

\* C21: the speed checks come first and are strict: a group has 1 word when
\* the average is < min_visibility/2, 2 words (1 if one remains) when it is
\* >= min_visibility/2 and < min_visibility, and the size the position cycle
\* gives (the one for arbitrarily slow speech) only when it is
\* >= min_visibility.
C21_SpeedChecksFirst ==
    [][GroupIteration =>
          LET remaining == LoopWords - loop_i
              taken == loop_i' - loop_i
          IN  /\ 2 * LoopAvg < cfg.min_visibility_sec => taken = 1
              /\ (2 * LoopAvg >= cfg.min_visibility_sec /\ LoopAvg < cfg.min_visibility_sec)
                     => taken = (IF remaining = 1 THEN 1 ELSE 2)
              /\ LoopAvg >= cfg.min_visibility_sec
                     => taken = Min(determine_word_count(cfg, loop_i, LoopWords, Inf), remaining)]_vars

\* C21 witness: a segment whose average is exactly min_visibility/2 had its
\* two words taken as one group.
C21_Witness ==
    /\ pc = "while" /\ loop_count = 1 /\ loop_i = 2
    /\ 2 * LoopAvg = cfg.min_visibility_sec

\* A second case of C21: at exactly min_visibility the cycle applied, and the
\* two words were taken one by one.
C21_WitnessAtThreshold ==
    /\ pc = "while" /\ loop_count = 2 /\ loop_i = 2
    /\ LoopAvg = cfg.min_visibility_sec

\* C22: in sliding-window mode a kept segment of n words has exactly n
\* states, and its state for word i (0-based, in list order) shows the words
\* max(0, i - N + 1) .. i, N = max_words: min(i + 1, N) words ending with
\* word i.
C22_SlidingWindowText ==
    (Returned /\ impl = "sliding") =>
        \A p \in 1..Len(segments) :
            Kept(segments[p]) =>
                LET words == tokenize(segments[p].text)
                    l == StatesOfSegment(segments[p])
                IN  /\ Len(l) = Len(words)
                    /\ \A k \in 1..Len(l) :
                           /\ l[k].text = SubSeq(words, Max(0, k - cfg.max_words) + 1, k)
                           /\ Len(l[k].text) = Min(k, cfg.max_words)
                           /\ l[k].text[Len(l[k].text)] = words[k]

\* C22 witness: the window has reached its cap and slid: a state shows
\* max_words words, the first of which is not the segment's first word.
C22_Witness ==
    /\ Returned /\ impl = "sliding"
    /\ \E i \in 1..Len(states) :
           /\ Len(states[i].text) = cfg.max_words
           /\ states[i].text[1] # tokenize(SegmentOf(states[i]).text)[1]

\* The word intervals generate_states computes for a kept segment.
WordTimesOf(seg) ==
    Sliding_compute_word_times(cfg, AdjStart(seg), AdjEnd(seg), Len(tokenize(seg.text)))

\* "t" of the state for the k-th word (1-based) of a segment: the start of
\* the next word's interval minus the overlap allowance, or the adjusted
\* segment end for the last word.
NextStartOrEnd(seg, k) ==
    IF k < Len(tokenize(seg.text)) THEN WordTimesOf(seg)[k + 1][1] - cfg.overlap_sec
    ELSE AdjEnd(seg)

C23_WitnessFloor ==
    /\ Returned /\ impl = "sliding"
    /\ \E p \in 1..Len(segments) :
           /\ Kept(segments[p])
           /\ \E k \in 1..(Len(tokenize(segments[p].text)) - 1) :
                  NextStartOrEnd(segments[p], k) < StatesOfSegment(segments[p])[k].off

\* C24: on an on-sorted list whose states all have off > on, the fixed-cycle
\* assigner and the greedy assigner with one level skip the same states.
C24_SingleLevelEquivalence ==
    (pc = "both_assigned") =>
        /\ Len(states) = Len(ref_states)
        /\ \A i \in 1..Len(states) : states[i].skip = ref_states[i].skip

\* C24 witness: a list in which a state was skipped, a later one starting
\* exactly at the end of an accepted one was accepted, and another skipped.
C24_Witness ==
    /\ pc = "both_assigned"
    /\ \E i, j, k \in 1..Len(states) :
           /\ i < j /\ j < k
           /\ states[i].skip /\ ~states[j].skip /\ states[k].skip
           /\ \E a \in 1..(j - 1) : ~states[a].skip /\ states[a].off = states[j].on

\* The words shown by the states of a segment, in list order.
WordsShown(seg) ==
    LET l == StatesOfSegment(seg) IN Flatten([k \in 1..Len(l) |-> l[k].text])

\* C25 (as claimed): in fixed-cycle mode the texts of the states of a kept
\* segment, concatenated in on order, are exactly the segment's words.
C25_NoWordLost ==
    (Returned /\ impl = "cycle") =>
        \A p \in 1..Len(segments) :
            Kept(segments[p]) => WordsShown(segments[p]) = tokenize(segments[p].text)

\* C26 (as claimed): in fixed-cycle mode the states of one segment follow one
\* another without overlap, and for a single-segment input
\* assign_caption_levels skips nothing.
C26_SingleSegmentSequential ==
    (Returned /\ impl = "cycle") =>
        /\ \A p \in 1..Len(segments) :
               LET l == StatesOfSegment(segments[p])
               IN  \A k \in 1..(Len(l) - 1) : l[k].off <= l[k + 1].on
        /\ (pc = "assigned" /\ Len(segments) = 1) =>
               \A i \in 1..Len(states) : ~states[i].skip

\* The generator has the default sliding-window configuration.
DefaultSlidingConfig ==
    /\ impl = "sliding"
    /\ cfg.lead_in_sec = Ms(DefaultLeadInMs)
    /\ cfg.min_visibility_sec = Ms(DefaultMinVisibilityMs)
    /\ cfg.overlap_sec = Ms(DefaultOverlapMs)
    /\ cfg.max_words = DefaultMaxWords

\* C27 (as claimed): with the default sliding-window configuration and a
\* single-segment input, assign_caption_levels skips nothing.
C27_SingleSegmentNoSkip ==
    (pc = "assigned" /\ DefaultSlidingConfig /\ Len(segments) = 1) =>
        \A i \in 1..Len(states) : ~states[i].skip

\* C28 (as claimed): every state sliding-window generate_states returns lies
\* inside the clip-relative timeline: 0 <= on and off <= clip_end - clip_start.
C28_StatesInsideClip ==
    (pc = "generated" /\ impl = "sliding" /\ cfg.min_visibility_sec > 0) =>
        \A i \in 1..Len(states) :
            /\ 0 <= states[i].on
            /\ states[i].off <= clip_end - clip_start

\* C29 (as claimed): after the runner's timing adjustment no created clip
\* ends after the next one starts: its validation finds no overlap.
C29_RunnerNoOverlap ==
    (pc = "run_validated") => ~overlapping_found

\* The clips of sorted_specs after place i on the Y position of clip i.
LaterOnLevel(i) == {j \in (i + 1)..Len(rendered) : rendered[j].position_y = rendered[i].position_y}

\* The next clip on the Y position of clip i, in start order.
NextOnLevel(i) == CHOOSE j \in LaterOnLevel(i) : \A k \in LaterOnLevel(i) : j <= k

SweepDone == pc \in {"sweep_timed", "sweep_validated"}

\* C30 (as claimed): after the fixed-cycle runner's per-level sweep, the kept
\* clips of one Y position do not overlap (each ends no later than the next
\* kept one starts), every kept clip lasts at least 0.120 s, and a clip is
\* marked skip exactly when 0.120 s does not fit between its adjusted start
\* and the next clip's original start.
C30_SweepKeepsOrSkips ==
    SweepDone =>
        \A i \in 1..Len(text_clips) :
            /\ \A j \in LaterOnLevel(i) :
                   (~text_clips[i].skip /\ ~text_clips[j].skip)
                       => text_clips[i].end_time <= text_clips[j].start_time
            /\ ~text_clips[i].skip
                   => FlSub(text_clips[i].end_time, text_clips[i].start_time) >= min_duration
            /\ text_clips[i].skip
                   <=> /\ LaterOnLevel(i) # {}
                       /\ FlAdd(text_clips[i].start_time, min_duration)
                              > rendered[NextOnLevel(i)].start_time

\* What the sweep does keep: no overlap among the kept clips of a level, a
\* duration of at least 0.120 s, and every clip too close to its successor
\* skipped.
C30_SweepKeptClips ==
    SweepDone =>
        \A i \in 1..Len(text_clips) :
            /\ \A j \in LaterOnLevel(i) :
                   (~text_clips[i].skip /\ ~text_clips[j].skip)
                       => text_clips[i].end_time <= text_clips[j].start_time
            /\ ~text_clips[i].skip
                   => FlSub(text_clips[i].end_time, text_clips[i].start_time) >= min_duration
            /\ (/\ LaterOnLevel(i) # {}
                /\ FlAdd(text_clips[i].start_time, min_duration)
                       > rendered[NextOnLevel(i)].start_time)
                   => text_clips[i].skip

\* A last clip of its level is marked skip.
C30_LastClipSkipped ==
    /\ SweepDone
    /\ \E i \in 1..Len(text_clips) : text_clips[i].skip /\ LaterOnLevel(i) = {}

\* A clip is skipped because the next one starts too early, and one is kept.
C30_GapSkip ==
    /\ SweepDone
    /\ \E i \in 1..Len(text_clips) : text_clips[i].skip /\ LaterOnLevel(i) # {}
    /\ \E i \in 1..Len(text_clips) : ~text_clips[i].skip

====
